---- MODULE Spec2Model ----
(***************************************************************************)
(* The character store of the Daggerheart card builder (Pinia store        *)
(* 'character'), its save codec and the builder view's click handlers.     *)
(*                                                                         *)
(* The repository holds the store in two rule variants that share every    *)
(* action but selectClass / selectSubclass / setCharacterName:             *)
(*   "auto"   - domains auto-assigned from CLASS_DOMAINS, subclass and     *)
(*              character name present;                                    *)
(*   "manual" - domains picked by hand (frontend/src/stores/character.ts), *)
(*              no subclass and no character name.                         *)
(* variant is fixed when the store is created.                             *)
(*                                                                         *)
(* Specifications:                                                         *)
(*   Spec       - the store's actions and the builder's click handlers;    *)
(*   SpecLoad   - loadCards called repeatedly, each fetch ok or failing;   *)
(*   SpecUpload - the file input: loadSave and fromSave on uploaded files; *)
(*   SpecExport - the archive export, image by image;                      *)
(*   SpecPrint  - printCards on each of its inputs;                        *)
(*   SpecViews  - the derived views over every small catalog;              *)
(*   SpecStale  - load, print and export of documents with unknown ids;    *)
(*   SpecBuilder - the builder's domain buttons with the store's actions;  *)
(*   SpecAlias  - documents kept by the caller of fromSave and toSave;     *)
(*   SpecCascade - the store while the catalog is being fetched;           *)
(*   SpecSnapshot - the export interleaved with store actions.             *)
(***************************************************************************)
EXTENDS Naturals, Sequences, FiniteSets, TLC

\* ---------------------------------------------------------------------------
\* JavaScript values
\* ---------------------------------------------------------------------------
\* null and undefined (a field absent from a parsed JSON document)
Null    == "<null>"
Missing == "<undefined>"

\* ?? that keeps undefined: only null is replaced
Coalesce_nullOnly(a, b) == IF a = Null THEN b ELSE a

\* a ?? b
Coalesce(a, b) == IF a = Null \/ a = Missing THEN b ELSE a

\* a string used as a condition: null, undefined and '' are falsy
Truthy(x) == x # Null /\ x # Missing /\ x # ""

\* the elements of an array
Range(s) == { s[i] : i \in 1..Len(s) }

\* the members of a Set, or the keys of an object, as an array
SetToSeq(S) == CHOOSE q \in [ 1..Cardinality(S) -> S ] : Range(q) = S

\* Array.prototype.indexOf, 1-based; 0 when absent (JavaScript's -1)
indexOf(s, x) ==
  IF x \in Range(s) THEN CHOOSE i \in 1..Len(s) : s[i] = x /\ \A j \in 1..(i-1) : s[j] # x
  ELSE 0

\* Array.prototype.splice(idx, 1): the array without its idx-th element
splice(s, idx) == [ i \in 1..(Len(s)-1) |-> IF i < idx THEN s[i] ELSE s[i+1] ]

\* ---------------------------------------------------------------------------
\* Bounds of the model
\* ---------------------------------------------------------------------------
\* how many of the nine domains the actions draw their arguments from
NumDomains == 3

\* ---------------------------------------------------------------------------
\* Reference tables (types/card.ts)
\* ---------------------------------------------------------------------------
AllDomains ==
  << "grazia", "codice", "splendore", "valore", "lama",
     "osso", "saggio", "arcano", "mezzanotte" >>

Domains == { AllDomains[i] : i \in 1..NumDomains }

\* Italian class name -> primary domain
CLASS_DOMAIN_MAP ==
  [ Bardo     |-> "grazia",
    Mago      |-> "codice",
    Serafino  |-> "splendore",
    Guardiano |-> "valore",
    Guerriero |-> "lama",
    Ranger    |-> "osso",
    Druido    |-> "saggio",
    Stregone  |-> "arcano",
    Ladro     |-> "mezzanotte" ]

\* the table with the last pair closing the chain on the wrong domain
CLASS_DOMAINS_openChain ==
  [ Bardo     |-> << "grazia",     "codice"     >>,
    Mago      |-> << "codice",     "splendore"  >>,
    Serafino  |-> << "splendore",  "valore"     >>,
    Guardiano |-> << "valore",     "lama"       >>,
    Guerriero |-> << "lama",       "osso"       >>,
    Ranger    |-> << "osso",       "saggio"     >>,
    Druido    |-> << "saggio",     "arcano"     >>,
    Stregone  |-> << "arcano",     "mezzanotte" >>,
    Ladro     |-> << "mezzanotte", "arcano"     >> ]

\* the 2 domains each class has access to
CLASS_DOMAINS ==
  [ Bardo     |-> << "grazia",     "codice"     >>,
    Mago      |-> << "codice",     "splendore"  >>,
    Serafino  |-> << "splendore",  "valore"     >>,
    Guardiano |-> << "valore",     "lama"       >>,
    Guerriero |-> << "lama",       "osso"       >>,
    Ranger    |-> << "osso",       "saggio"     >>,
    Druido    |-> << "saggio",     "arcano"     >>,
    Stregone  |-> << "arcano",     "mezzanotte" >>,
    Ladro     |-> << "mezzanotte", "grazia"     >> ]

SUBCLASS_TO_CLASS ==
  ( "TROVATORE"                   :> "Bardo"     @@
    "ORATORE"                     :> "Bardo"     @@
    "SCUOLA DELLA CONOSCENZA"     :> "Mago"      @@
    "SCUOLA DELLA GUERRA"         :> "Mago"      @@
    "EMISSARIO DIVINO"            :> "Serafino"  @@
    "SENTINELLA ALATA"            :> "Serafino"  @@
    "VALOROSO"                    :> "Guardiano" @@
    "VENDICATORE"                 :> "Guardiano" @@
    "CHIAMATA DEL CORAGGIO"       :> "Guerriero" @@
    "CHIAMATA DELLO STERMINATORE" :> "Guerriero" @@
    "FERALE"                      :> "Ranger"    @@
    "APRIPISTA"                   :> "Ranger"    @@
    "CUSTODE DEGLI ELEMENTI"      :> "Druido"    @@
    "CUSTODE DEL RINNOVAMENTO"    :> "Druido"    @@
    "POTERE ELEMENTALE"           :> "Stregone"  @@
    "POTERE PRIMORDIALE"          :> "Stregone"  @@
    "OMBRA NOTTURNA"              :> "Ladro"     @@
    "LADRO"                       :> "Ladro" )


\* ---------------------------------------------------------------------------
\* The manifest cards/index.json served to loadCards (CardIndex records)
\* ---------------------------------------------------------------------------
\* img is the image's path under cards/, held as its '/'-separated segments:
\* origine/<file>, comunità/<file>, domini/<dominio>/<sottocategoria>/<file>
\* livello (number | null) is held as a list of 0 or 1 numbers; a card is
\* built with livello null and withLivello gives it a level
Card(id, nome, categoria, dominio, sottocategoria, tipo, pagina, file) ==
  [ id |-> id, nome |-> nome, categoria |-> categoria, dominio |-> dominio,
    sottocategoria |-> sottocategoria, tipo_carta |-> tipo, pagina |-> pagina,
    livello |-> << >>,
    img |-> IF categoria = "dominio"
            THEN << "domini", dominio, sottocategoria, file >>
            ELSE << categoria, file >> ]

withLivello(card, n) == [ card EXCEPT !.livello = << n >> ]

Manifest ==
  << Card("o1", "UMANO",               "origine",  Null,        Null,      Null,             1, "01.png"),
     Card("c1", "MARINAI",             "comunità", Null,        Null,      Null,             2, "01.png"),
     Card("k2", "TROVATORE",           "dominio",  "grazia",    "classi",  "specializzazione", 4, "02.png"),
     Card("k1", "TROVATORE",           "dominio",  "grazia",    "classi",  "privilegio",     3, "01.png"),
     Card("k3", "ORATORE",             "dominio",  "grazia",    "classi",  "privilegio",     5, "03.png"),
     Card("k4", "SCUOLA DELLA GUERRA", "dominio",  "codice",    "classi",  "privilegio",     6, "01.png"),
     withLivello(Card("a1", "INCANTARE",           "dominio",  "grazia",    "abilita", "incantesimo",    7, "01.png"), 1),
     withLivello(Card("a2", "LIBRO DI AVA",        "dominio",  "codice",    "abilita", "grimorio",       8, "01.png"), 1),
     withLivello(Card("a3", "LUCE GUARITRICE",     "dominio",  "splendore", "abilita", "incantesimo",    9, "01.png"), 2) >>

\* how many cards the catalogs of CatalogPool have at most
MaxCatalog == 3

\* cards the derived views are checked on: two subclasses of one class with
\* the later page first, a class card whose nome SUBCLASS_TO_CLASS does not
\* know, abilities of two domains with and without a level, an origin card
CatalogPool ==
  << Card("k1", "TROVATORE", "dominio", "grazia", "classi", "privilegio", 3, "01.png"),
     Card("k3", "ORATORE",   "dominio", "grazia", "classi", "privilegio", 2, "03.png"),
     Card("k5", "NOMADE",    "dominio", "osso",   "classi", "specializzazione", 3, "05.png"),
     withLivello(Card("a1", "INCANTARE",    "dominio", "grazia", "abilita", "incantesimo", 7, "01.png"), 1),
     withLivello(Card("a2", "LIBRO DI AVA", "dominio", "codice", "abilita", "grimorio",    8, "01.png"), 2),
     withLivello(Card("a6", "LIBRO DI ZOE", "dominio", "codice", "abilita", "grimorio",    9, "02.png"), 1),
     Card("a4", "ISPIRARE", "dominio", "grazia", "abilita", "abilità", 6, "04.png"),
     Card("o1", "UMANO", "origine", Null, Null, Null, 1, "01.png") >>

\* every manifest of at most MaxCatalog cards of the pool, in every order,
\* no card twice
Catalogs ==
  UNION { { q \in [ 1..n -> Range(CatalogPool) ] :
              \A i, j \in 1..n : i # j => q[i] # q[j] } : n \in 0..MaxCatalog }

\* ---------------------------------------------------------------------------
\* Arguments the actions are called with
\* ---------------------------------------------------------------------------
ClassNames     == { "Bardo", "Mago", "Nomade" }          \* "Nomade": no CLASS_DOMAINS entry
SubclassNames  == { "TROVATORE" }
AbilityIds     == { "a1", "a2", "zz" }                   \* "zz" resolves to no card
OriginIds      == { "o1" }
CommunityIds   == { "c1" }
CharacterNames == { "Aria" }
Dates          == { "2025-01-01T00:00:00.000Z", "2025-06-30T12:00:00.000Z" }

VARIABLES
  variant,            \* "auto" | "manual": which store variant is running
  allCards,           \* ref<CardIndex[]>
  loading,            \* ref(false)
  error,              \* ref<string | null>
  fetches,            \* loadCards invocations suspended at `await fetch`
  loadCalls,          \* loadCards invocations made so far
  fetchCount,         \* requests for cards/index.json issued so far
  outcomes,           \* how the manifest fetches ended, in order of completion
  overlapped,         \* some loadCards call was made while a fetch was outstanding
  characterName,
  className,
  selectedSubclass,
  selectedDomains,    \* Dominio[]
  selectedAbilities,  \* Set<string>
  selectedOrigin,
  selectedCommunity,
  lastAlert,          \* the message of the latest window.alert, or null
  downloading,        \* BuilderView: ref(false), true while onDownloadZip runs
  zip,                \* the JSZip object of the downloadSet call in progress
  job,                \* the cards downloadSet still has to fetch, with their folders
  lastDownload,       \* the archive most recently offered to the browser, if any
  printArgs,          \* the arguments printCards is called with
  printWindow,        \* the window printCards opened last, with its document
  heldDoc,            \* the save document a caller of fromSave / toSave kept, if any
  sharesDomains,      \* heldDoc.selectedDomains is the very array in selectedDomains
  classTable,         \* the CLASS_DOMAINS object as the running program holds it
  sharesPair          \* the class whose classTable array is the very array in
                      \* selectedDomains, or null

catalog   == << allCards, loading, error >>
exporter  == << downloading, zip, job, lastDownload >>
printer   == << printArgs, printWindow >>
io        == << lastAlert, exporter, printer >>
selection == << characterName, className, selectedSubclass, selectedDomains,
                selectedAbilities, selectedOrigin, selectedCommunity >>
network   == << fetches, loadCalls, fetchCount, outcomes, overlapped >>
heap      == << heldDoc, sharesDomains, classTable, sharesPair >>
vars      == << variant, allCards, loading, error, network,
                characterName, className, selectedSubclass, selectedDomains,
                selectedAbilities, selectedOrigin, selectedCommunity, io, heap >>

\* printCards / downloadSet arguments: CardIndex | null as a list of 0 or 1 cards
NoPrintArgs ==
  [ originCard |-> << >>, communityCard |-> << >>,
    classCards |-> << >>, abilityCards |-> << >> ]

\* a JSZip object: personaggio.json (absent, or the document written to it),
\* the image files and the folders
NoZip == [ save |-> << >>, files |-> {}, folders |-> {} ]

\* downloadSet's parameters and how many of the images it has fetched
NoJob == [ save |-> << >>, items |-> << >>, done |-> 0 ]

\* CLASS_DOMAINS[nome] ?? [], read from the table the program holds
classDomainsOf(nome) ==
  IF nome \in DOMAIN classTable THEN classTable[nome] ELSE << >>

\* the getter classDomains: the pair of the chosen class, or [] without one
classDomains == IF Truthy(className) THEN classDomainsOf(className) ELSE << >>

\* the store and the page as they are created
InitStore ==
  /\ lastAlert = Null
  /\ downloading = FALSE
  /\ zip = NoZip
  /\ job = NoJob
  /\ lastDownload = << >>
  /\ printWindow = << >>
  /\ variant \in { "auto", "manual" }
  /\ allCards = << >>
  /\ loading = FALSE
  /\ error = Null
  /\ fetches = 0
  /\ loadCalls = 0
  /\ fetchCount = 0
  /\ outcomes = << >>
  /\ overlapped = FALSE
  /\ characterName = ""
  /\ className = Null
  /\ selectedSubclass = Null
  /\ selectedDomains = << >>
  /\ selectedAbilities = {}
  /\ selectedOrigin = Null
  /\ selectedCommunity = Null
  /\ heldDoc = << >>
  /\ sharesDomains = FALSE
  /\ classTable = CLASS_DOMAINS
  /\ sharesPair = Null

Init ==
  /\ InitStore
  /\ printArgs = NoPrintArgs


\* ---------------------------------------------------------------------------
\* Derived views (computed getters of the store)
\* ---------------------------------------------------------------------------
\* allCards.find(c => c.id === id): the first card with that id, or undefined
findCard(id) ==
  IF \E k \in 1..Len(allCards) : allCards[k].id = id
  THEN allCards[CHOOSE i \in 1..Len(allCards) :
                  allCards[i].id = id /\ \A j \in 1..(i-1) : allCards[j].id # id]
  ELSE Missing

hasCard(id) == \E i \in 1..Len(allCards) : allCards[i].id = id

\* allCards.find(c => c.id === id)?.dominio
dominioOf(id) == IF hasCard(id) THEN findCard(id).dominio ELSE Missing

\* Array.prototype.filter
RECURSIVE filterSeq(_, _)
filterSeq(s, keep) ==
  IF s = << >> THEN << >>
  ELSE IF Head(s) \in keep THEN << Head(s) >> \o filterSeq(Tail(s), keep)
       ELSE filterSeq(Tail(s), keep)

\* SUBCLASS_TO_CLASS[c.nome] ?? c.nome
clsNameOf(c) ==
  IF c.nome \in DOMAIN SUBCLASS_TO_CLASS THEN SUBCLASS_TO_CLASS[c.nome] ELSE c.nome

\* cards.sort((a, b) => a.pagina - b.pagina): stable, ascending by pagina
RECURSIVE insertByPagina(_, _)
insertByPagina(sorted, c) ==
  IF sorted = << >> THEN << c >>
  ELSE IF c.pagina < Head(sorted).pagina THEN << c >> \o sorted
       ELSE << Head(sorted) >> \o insertByPagina(Tail(sorted), c)

RECURSIVE sortByPagina(_)
sortByPagina(s) ==
  IF s = << >> THEN << >>
  ELSE insertByPagina(sortByPagina(SubSeq(s, 1, Len(s) - 1)), s[Len(s)])

\* activeClass?.cards ?? []: the page-ordered class cards grouped under className
activeClassCards ==
  sortByPagina(filterSeq(allCards,
    { c \in Range(allCards) : c.sottocategoria = "classi" /\ clsNameOf(c) = className }))

\* the subclass names of the active class, in page order, without repetition
RECURSIVE distinctNomi(_, _)
distinctNomi(s, seen) ==
  IF s = << >> THEN << >>
  ELSE IF Head(s).nome \in seen THEN distinctNomi(Tail(s), seen)
       ELSE << Head(s).nome >> \o distinctNomi(Tail(s), seen \cup { Head(s).nome })

subclasses == distinctNomi(activeClassCards, {})

\* classCards without the narrowing to the selected subclass
classCards_ignoreSubclass == activeClassCards

classCards ==
  IF variant = "auto" /\ Truthy(selectedSubclass)
  THEN filterSeq(activeClassCards,
                 { c \in Range(activeClassCards) : c.nome = selectedSubclass })
  ELSE activeClassCards

\* map.get(clsName).push(c), creating the entry on the first card of a class;
\* a Map keeps its entries in insertion order
pushInto(groups, c) ==
  IF \E i \in 1..Len(groups) : groups[i].nome = clsNameOf(c)
  THEN [ i \in 1..Len(groups) |->
           IF groups[i].nome = clsNameOf(c)
           THEN [ groups[i] EXCEPT !.cards = Append(@, c) ]
           ELSE groups[i] ]
  ELSE Append(groups, [ nome |-> clsNameOf(c), cards |-> << c >> ])

\* the loop of `classes` over the catalog, skipping what is not a class card
RECURSIVE groupClassi(_)
groupClassi(cards) ==
  IF cards = << >> THEN << >>
  ELSE LET before == groupClassi(SubSeq(cards, 1, Len(cards) - 1))
           c      == cards[Len(cards)]
       IN IF c.sottocategoria # "classi" THEN before ELSE pushInto(before, c)

\* cards.find(c => c.tipo_carta === 'privilegio') ?? cards[0]
baseCardOf(cards) ==
  IF \E i \in 1..Len(cards) : cards[i].tipo_carta = "privilegio"
  THEN cards[CHOOSE i \in 1..Len(cards) :
               /\ cards[i].tipo_carta = "privilegio"
               /\ \A j \in 1..(i-1) : cards[j].tipo_carta # "privilegio"]
  ELSE cards[1]

\* one ClassInfo per group
classInfo(group, cards) ==
  [ nome     |-> group.nome,
    dominio  |-> IF group.nome \in DOMAIN CLASS_DOMAIN_MAP
                 THEN CLASS_DOMAIN_MAP[group.nome] ELSE "arcano",
    cards    |-> cards,
    baseCard |-> baseCardOf(cards) ]

\* `classes` with the sort by pagina left out
classes_unsorted ==
  LET groups == groupClassi(allCards) IN
    [ i \in 1..Len(groups) |-> classInfo(groups[i], groups[i].cards) ]

\* the derived list of classes, grouped by Italian class name
classes ==
  LET groups == groupClassi(allCards) IN
    [ i \in 1..Len(groups) |-> classInfo(groups[i], sortByPagina(groups[i].cards)) ]

\* classes.find(c => c.nome === className) ?? null, as a list of 0 or 1 classes
activeClass ==
  IF \E i \in 1..Len(classes) : classes[i].nome = className
  THEN << classes[CHOOSE i \in 1..Len(classes) :
                    /\ classes[i].nome = className
                    /\ \A j \in 1..(i-1) : classes[j].nome # className] >>
  ELSE << >>

\* the ability cards of the selected domains, in catalog order
abilityCards ==
  filterSeq(allCards,
    { c \in Range(allCards) :
        c.sottocategoria = "abilita" /\ c.dominio \in Range(selectedDomains) })

\* String(n) of a level, as a property key, and Number(key) back
Digits == << "0", "1", "2", "3", "4", "5", "6", "7", "8", "9" >>
keyOf(n) == Digits[n + 1]
Number(key) == (CHOOSE i \in 1..Len(Digits) : Digits[i] = key) - 1

\* the default level taken as 1: c.livello ?? 1
levelOf_nullIsOne(c) == IF c.livello = << >> THEN 1 ELSE c.livello[1]

\* c.livello ?? 0
levelOf(c) == IF c.livello = << >> THEN 0 ELSE c.livello[1]

\* the loop of cardsByLevel: the object's keys are the levels as strings
RECURSIVE bucketsOf(_)
bucketsOf(cards) ==
  IF cards = << >> THEN [ k \in {} |-> << >> ]
  ELSE LET map == bucketsOf(SubSeq(cards, 1, Len(cards) - 1))
           c   == cards[Len(cards)]
           lvl == keyOf(levelOf(c))
       IN IF lvl \in DOMAIN map
          THEN [ map EXCEPT ![lvl] = Append(@, c) ]
          ELSE [ k \in DOMAIN map \cup { lvl } |->
                   IF k = lvl THEN << c >> ELSE map[k] ]

cardsByLevel == bucketsOf(abilityCards)

\* numbers.sort((a, b) => a - b)
RECURSIVE insertNumber(_, _)
insertNumber(sorted, n) ==
  IF sorted = << >> THEN << n >>
  ELSE IF n < Head(sorted) THEN << n >> \o sorted
       ELSE << Head(sorted) >> \o insertNumber(Tail(sorted), n)

RECURSIVE sortNumbers(_)
sortNumbers(s) ==
  IF s = << >> THEN << >>
  ELSE insertNumber(sortNumbers(SubSeq(s, 1, Len(s) - 1)), s[Len(s)])

\* Object.keys(cardsByLevel).map(Number).sort((a, b) => a - b)
levels ==
  LET keys == SetToSeq(DOMAIN cardsByLevel) IN
    sortNumbers([ i \in 1..Len(keys) |-> Number(keys[i]) ])

\* ---------------------------------------------------------------------------
\* loadCards
\* ---------------------------------------------------------------------------
\* loadCards without the `if (allCards.value.length) return` guard
loadCards_noGuard ==
  /\ loadCalls' = loadCalls + 1
  /\ overlapped' = (overlapped \/ fetches > 0)
  /\ loading' = TRUE
  /\ fetches' = fetches + 1
  /\ fetchCount' = fetchCount + 1
  /\ UNCHANGED << allCards, error >>
  /\ UNCHANGED << variant, heap, outcomes, selection, io >>

\* the synchronous part of a call, up to `await fetch`
loadCards ==
  /\ loadCalls' = loadCalls + 1
  /\ overlapped' = (overlapped \/ fetches > 0)
  /\ IF Len(allCards) # 0
     THEN UNCHANGED << allCards, loading, error, fetches, fetchCount >>
     ELSE /\ loading' = TRUE
          /\ fetches' = fetches + 1
          /\ fetchCount' = fetchCount + 1
          /\ UNCHANGED << allCards, error >>
  /\ UNCHANGED << variant, heap, outcomes, selection, io >>

\* the fetch answers ok and the body parses: allCards = await res.json()
loadCardsResolve ==
  /\ fetches > 0
  /\ fetches' = fetches - 1
  /\ allCards' = Manifest
  /\ loading' = FALSE
  /\ outcomes' = Append(outcomes, "ok")
  /\ UNCHANGED << variant, heap, error, loadCalls, fetchCount, overlapped, selection, io >>

\* the fetch answers ok with a given manifest
loadCardsResolveWith(manifest) ==
  /\ fetches > 0
  /\ fetches' = fetches - 1
  /\ allCards' = manifest
  /\ loading' = FALSE
  /\ outcomes' = Append(outcomes, IF manifest = << >> THEN "empty" ELSE "ok")
  /\ UNCHANGED << variant, heap, error, loadCalls, fetchCount, overlapped, selection, io >>

\* the fetch answers ok and the manifest is the empty array
loadCardsResolveEmpty ==
  /\ fetches > 0
  /\ fetches' = fetches - 1
  /\ allCards' = << >>
  /\ loading' = FALSE
  /\ outcomes' = Append(outcomes, "empty")
  /\ UNCHANGED << variant, heap, error, loadCalls, fetchCount, overlapped, selection, io >>

\* a failing load that has already stored the first card of the manifest
loadCardsReject_partial ==
  /\ fetches > 0
  /\ fetches' = fetches - 1
  /\ allCards' = SubSeq(Manifest, 1, 1)
  /\ error' = "Error: HTTP 404"
  /\ loading' = FALSE
  /\ outcomes' = Append(outcomes, "failed")
  /\ UNCHANGED << variant, heap, loadCalls, fetchCount, overlapped, selection, io >>

\* the fetch rejects, answers not-ok or the body does not parse
loadCardsReject ==
  /\ fetches > 0
  /\ fetches' = fetches - 1
  /\ error' = "Error: HTTP 404"
  /\ loading' = FALSE
  /\ outcomes' = Append(outcomes, "failed")
  /\ UNCHANGED << variant, heap, allCards, loadCalls, fetchCount, overlapped, selection, io >>

\* App.vue: onMounted(() => store.loadCards())
AppMounted ==
  /\ loadCalls = 0
  /\ loadCards

\* how many loadCards calls a run makes
MaxLoadCalls == 3

\* a further store.loadCards() call, made whether or not a fetch is outstanding
loadCardsAgain ==
  /\ loadCalls > 0
  /\ loadCalls < MaxLoadCalls
  /\ loadCards

\* ---------------------------------------------------------------------------
\* Store actions
\* ---------------------------------------------------------------------------
\* selectClass that forgets to clear the selected abilities
selectClass_keepAbilities(nome) ==
  /\ className' = nome
  /\ selectedSubclass' = IF variant = "auto" THEN Null ELSE selectedSubclass
  /\ UNCHANGED selectedAbilities
  /\ selectedDomains' = IF variant = "auto" THEN classDomainsOf(nome) ELSE << >>
  /\ UNCHANGED << variant, catalog, network, io,
                  characterName, selectedOrigin, selectedCommunity >>
  /\ sharesDomains' = FALSE
  /\ sharesPair' = Null
  /\ UNCHANGED << heldDoc, classTable >>

\* selectClass without the spread: `selectedDomains.value = CLASS_DOMAINS[nome] ?? []`
\* stores the table's own array
selectClass_noCopy(nome) ==
  /\ className' = nome
  /\ selectedSubclass' = IF variant = "auto" THEN Null ELSE selectedSubclass
  /\ selectedAbilities' = {}
  /\ selectedDomains' = IF variant = "auto" THEN classDomainsOf(nome) ELSE << >>
  /\ UNCHANGED << variant, catalog, network, io,
                  characterName, selectedOrigin, selectedCommunity >>
  /\ sharesDomains' = FALSE
  /\ sharesPair' = IF variant = "auto" /\ nome \in DOMAIN classTable THEN nome ELSE Null
  /\ UNCHANGED << heldDoc, classTable >>

\* the auto variant spreads the class's pair into a new array
selectClass(nome) ==
  /\ className' = nome
  /\ selectedSubclass' = IF variant = "auto" THEN Null ELSE selectedSubclass
  /\ selectedAbilities' = {}
  /\ selectedDomains' = IF variant = "auto" THEN classDomainsOf(nome) ELSE << >>
  /\ UNCHANGED << variant, catalog, network, io,
                  characterName, selectedOrigin, selectedCommunity >>
  /\ sharesDomains' = FALSE
  /\ sharesPair' = Null
  /\ UNCHANGED << heldDoc, classTable >>

selectSubclass(nome) ==
  /\ variant = "auto"
  /\ selectedSubclass' = nome
  /\ UNCHANGED << variant, heap, catalog, network, io, characterName, className,
                  selectedDomains, selectedAbilities, selectedOrigin, selectedCommunity >>

\* cascade with the `card?.dominio === dominio` test left out: nothing is removed
cascade_keepAll(abilities, dominio) == abilities

\* the abilities left after the cascade of toggleDomain(dominio)
cascade(abilities, dominio) ==
  { id \in abilities : dominioOf(id) # dominio }

\* toggleDomain with unshift in place of push
toggleDomain_unshift(dominio) ==
  /\ LET idx == indexOf(selectedDomains, dominio) IN
       IF idx >= 1
       THEN /\ selectedDomains' = splice(selectedDomains, idx)
            /\ selectedAbilities' = cascade(selectedAbilities, dominio)
       ELSE /\ selectedDomains' = << dominio >> \o selectedDomains
            /\ UNCHANGED selectedAbilities
  /\ UNCHANGED << variant, catalog, network, io, characterName, className,
                  selectedSubclass, selectedOrigin, selectedCommunity >>
  /\ heldDoc' = IF sharesDomains
                THEN << [ heldDoc[1] EXCEPT !.selectedDomains = selectedDomains' ] >>
                ELSE heldDoc
  /\ classTable' = IF sharesPair # Null
                   THEN [ classTable EXCEPT ![sharesPair] = selectedDomains' ]
                   ELSE classTable
  /\ UNCHANGED << sharesDomains, sharesPair >>

\* toggleDomain that only splices the domain out and forgets the abilities
toggleDomain_noCascade(dominio) ==
  /\ LET idx == indexOf(selectedDomains, dominio) IN
       IF idx >= 1
       THEN /\ selectedDomains' = splice(selectedDomains, idx)
            /\ UNCHANGED selectedAbilities
       ELSE /\ selectedDomains' = Append(selectedDomains, dominio)
            /\ UNCHANGED selectedAbilities
  /\ UNCHANGED << variant, catalog, network, io, characterName, className,
                  selectedSubclass, selectedOrigin, selectedCommunity >>
  /\ heldDoc' = IF sharesDomains
                THEN << [ heldDoc[1] EXCEPT !.selectedDomains = selectedDomains' ] >>
                ELSE heldDoc
  /\ classTable' = IF sharesPair # Null
                   THEN [ classTable EXCEPT ![sharesPair] = selectedDomains' ]
                   ELSE classTable
  /\ UNCHANGED << sharesDomains, sharesPair >>

toggleDomain(dominio) ==
  /\ LET idx == indexOf(selectedDomains, dominio) IN
       IF idx >= 1
       THEN /\ selectedDomains' = splice(selectedDomains, idx)
            /\ selectedAbilities' = cascade(selectedAbilities, dominio)
       ELSE /\ selectedDomains' = Append(selectedDomains, dominio)
            /\ UNCHANGED selectedAbilities
  /\ UNCHANGED << variant, catalog, network, io, characterName, className,
                  selectedSubclass, selectedOrigin, selectedCommunity >>
  /\ heldDoc' = IF sharesDomains
                THEN << [ heldDoc[1] EXCEPT !.selectedDomains = selectedDomains' ] >>
                ELSE heldDoc
  /\ classTable' = IF sharesPair # Null
                   THEN [ classTable EXCEPT ![sharesPair] = selectedDomains' ]
                   ELSE classTable
  /\ UNCHANGED << sharesDomains, sharesPair >>

\* the flip with the delete branch lost: an id is only ever added
toggled_addOnly(abilities, id) == abilities \cup { id }

\* has(id) ? delete(id) : add(id)
toggled(abilities, id) ==
  IF id \in abilities THEN abilities \ { id } ELSE abilities \cup { id }

toggleAbility(id) ==
  /\ selectedAbilities' = toggled(selectedAbilities, id)
  /\ UNCHANGED << variant, heap, catalog, network, io, characterName, className,
                  selectedSubclass, selectedDomains, selectedOrigin, selectedCommunity >>

selectOrigin(id) ==
  /\ selectedOrigin' = id
  /\ UNCHANGED << variant, heap, catalog, network, io, characterName, className,
                  selectedSubclass, selectedDomains, selectedAbilities, selectedCommunity >>

selectCommunity(id) ==
  /\ selectedCommunity' = id
  /\ UNCHANGED << variant, heap, catalog, network, io, characterName, className,
                  selectedSubclass, selectedDomains, selectedAbilities, selectedOrigin >>

setCharacterName(name) ==
  /\ variant = "auto"
  /\ characterName' = name
  /\ UNCHANGED << variant, heap, catalog, network, io, className, selectedSubclass,
                  selectedDomains, selectedAbilities, selectedOrigin, selectedCommunity >>

\* reset as the manual variant writes it, run on the auto variant's state:
\* characterName and selectedSubclass are not cleared
reset_keepNameAndSubclass ==
  /\ className' = Null
  /\ selectedDomains' = << >>
  /\ selectedAbilities' = {}
  /\ selectedOrigin' = Null
  /\ selectedCommunity' = Null
  /\ UNCHANGED << variant, catalog, network, io, characterName, selectedSubclass >>
  /\ sharesDomains' = FALSE
  /\ sharesPair' = Null
  /\ UNCHANGED << heldDoc, classTable >>

reset ==
  /\ characterName' = ""
  /\ className' = Null
  /\ selectedSubclass' = Null
  /\ selectedDomains' = << >>
  /\ selectedAbilities' = {}
  /\ selectedOrigin' = Null
  /\ selectedCommunity' = Null
  /\ UNCHANGED << variant, catalog, network, io >>
  /\ sharesDomains' = FALSE
  /\ sharesPair' = Null
  /\ UNCHANGED << heldDoc, classTable >>


\* ---------------------------------------------------------------------------
\* Save codec
\* ---------------------------------------------------------------------------
\* cards.map(c => c.id)
idsOf(cards) == [ i \in 1..Len(cards) |-> cards[i].id ]

toSave(now) ==
  [ version           |-> 1,
    exportDate        |-> now,
    characterName     |-> IF variant = "auto" THEN characterName ELSE Missing,
    className         |-> Coalesce(className, ""),
    selectedSubclass  |-> IF variant = "auto" THEN selectedSubclass ELSE Missing,
    classCardIds      |-> idsOf(classCards),
    selectedDomains   |-> selectedDomains,
    selectedAbilities |-> SetToSeq(selectedAbilities),
    selectedOrigin    |-> selectedOrigin,
    selectedCommunity |-> selectedCommunity ]

\* fromSave that validates ids: those the catalog does not hold are dropped
fromSave_dropUnknown(save) ==
  /\ characterName' = IF variant = "auto" THEN Coalesce(save.characterName, "")
                      ELSE characterName
  /\ className' = save.className
  /\ selectedSubclass' = IF variant = "auto" THEN Coalesce(save.selectedSubclass, Null)
                         ELSE selectedSubclass
  /\ selectedDomains' = save.selectedDomains
  /\ selectedAbilities' = { id \in Range(save.selectedAbilities) : hasCard(id) }
  /\ selectedOrigin' = IF hasCard(save.selectedOrigin) THEN save.selectedOrigin ELSE Null
  /\ selectedCommunity' = IF hasCard(save.selectedCommunity)
                          THEN save.selectedCommunity ELSE Null
  /\ sharesDomains' = FALSE
  /\ sharesPair' = Null
  /\ UNCHANGED << variant, heldDoc, classTable, catalog, network, io >>

fromSave(save) ==
  /\ characterName' = IF variant = "auto" THEN Coalesce(save.characterName, "")
                      ELSE characterName
  /\ className' = save.className
  /\ selectedSubclass' = IF variant = "auto" THEN Coalesce(save.selectedSubclass, Null)
                         ELSE selectedSubclass
  /\ selectedDomains' = save.selectedDomains
  /\ selectedAbilities' = Range(save.selectedAbilities)
  /\ selectedOrigin' = Coalesce(save.selectedOrigin, Null)
  /\ selectedCommunity' = Coalesce(save.selectedCommunity, Null)
  /\ sharesDomains' = FALSE
  /\ sharesPair' = Null
  /\ UNCHANGED << variant, heldDoc, classTable, catalog, network, io >>

\* fromSave(doc) by a caller that keeps doc: `selectedDomains.value =
\* save.selectedDomains` stores the document's own array, while the abilities
\* are copied into a new Set
fromSaveKept(save) ==
  /\ characterName' = IF variant = "auto" THEN Coalesce(save.characterName, "")
                      ELSE characterName
  /\ className' = save.className
  /\ selectedSubclass' = IF variant = "auto" THEN Coalesce(save.selectedSubclass, Null)
                         ELSE selectedSubclass
  /\ selectedDomains' = save.selectedDomains
  /\ selectedAbilities' = Range(save.selectedAbilities)
  /\ selectedOrigin' = Coalesce(save.selectedOrigin, Null)
  /\ selectedCommunity' = Coalesce(save.selectedCommunity, Null)
  /\ heldDoc' = << save >>
  /\ sharesDomains' = TRUE
  /\ sharesPair' = Null
  /\ UNCHANGED << variant, classTable, catalog, network, io >>

\* const doc = store.toSave() by a caller that keeps doc: selectedDomains and
\* selectedAbilities are spread into new arrays
toSaveKept(now) ==
  /\ heldDoc' = << toSave(now) >>
  /\ sharesDomains' = FALSE
  /\ UNCHANGED << variant, classTable, sharesPair, catalog, network, io, selection >>

\* Save documents a user uploads (already parsed by loadSave)
SaveDoc(name, cls, sub, cardIds, doms, abil, orig, comm) ==
  [ version           |-> 1,
    exportDate        |-> "2024-12-24T08:00:00.000Z",
    characterName     |-> name,
    className         |-> cls,
    selectedSubclass  |-> sub,
    classCardIds      |-> cardIds,
    selectedDomains   |-> doms,
    selectedAbilities |-> abil,
    selectedOrigin    |-> orig,
    selectedCommunity |-> comm ]

\* an older document: no name, subclass, origin or community
DocMinimal ==
  SaveDoc(Missing, "Bardo", Missing, << >>, << "grazia" >>, << >>, Missing, Missing)

\* a complete document written by the auto variant
DocFull ==
  SaveDoc("Aria", "Mago", "SCUOLA DELLA GUERRA", << "k4" >>,
          << "codice", "splendore" >>, << "a2" >>, "o1", "c1")

\* a hand-edited document: a domain listed twice
DocDuplicate ==
  SaveDoc("Aria", "Bardo", Null, << "k1", "k2", "k3" >>,
          << "grazia", "grazia" >>, << "a1" >>, Null, Null)

\* a document of another catalog: ids and subclass the catalog does not know
DocStale ==
  SaveDoc("", "Bardo", "SCUOLA DELLA GUERRA", << "k9" >>,
          << "grazia", "codice" >>, << "zz", "a2" >>, "o2", Null)

SaveDocs == { DocMinimal, DocFull, DocDuplicate, DocStale }

\* store.fromSave(store.toSave()) at time now
RoundTrip(now) == fromSave(toSave(now))

\* ---------------------------------------------------------------------------
\* Builder view handlers
\* ---------------------------------------------------------------------------
originCards    == filterSeq(allCards, { c \in Range(allCards) : c.categoria = "origine" })
communityCards == filterSeq(allCards, { c \in Range(allCards) : c.categoria = "comunità" })

\* App.vue shows the router view only when neither loading nor in error
viewShown == ~loading /\ error = Null

\* the click handler passing the card's id whatever is selected
clickOrigin_noToggle(card) ==
  /\ viewShown
  /\ card \in Range(originCards)
  /\ selectOrigin(card.id)

\* @click on an origin thumbnail
clickOrigin(card) ==
  /\ viewShown
  /\ card \in Range(originCards)
  /\ selectOrigin(IF selectedOrigin = card.id THEN Null ELSE card.id)

\* @click on a community thumbnail
clickCommunity(card) ==
  /\ viewShown
  /\ card \in Range(communityCards)
  /\ selectCommunity(IF selectedCommunity = card.id THEN Null ELSE card.id)

\* BuilderView: const MAX_DOMAINS = 2
MAX_DOMAINS == 2

\* the domain handler forwarding every click to the store
clickDomain_noCap(d) ==
  /\ viewShown
  /\ toggleDomain(d)

\* @click on a domain button: BuilderView's toggleDomain(d)
clickDomain(d) ==
  /\ viewShown
  /\ IF d \in Range(selectedDomains)
     THEN toggleDomain(d)
     ELSE IF Len(selectedDomains) < MAX_DOMAINS
          THEN toggleDomain(d)
          ELSE UNCHANGED vars

\* ---------------------------------------------------------------------------
\* Loading a save file (useDownload.loadSave, BuilderView.onLoadFile)
\* ---------------------------------------------------------------------------
\* What the chosen file holds, by the cases loadSave and fromSave tell apart:
\*   "unreadable"      - the FileReader reports an error
\*   "garbage"         - the text is not JSON
\*   "null"            - the text is the JSON value null
\*   "scalarAbilities" - an object whose selectedAbilities is a number
\*   "object"          - an object whose selectedAbilities is an array
\* doc is the parsed object of the last two kinds.
File(kind, doc) == [ kind |-> kind, doc |-> doc ]

\* an older document, of another class, with an ability
DocOld ==
  SaveDoc(Missing, "Mago", Missing, << "k4" >>, << "codice" >>, << "a2" >>,
          Missing, Missing)

\* a document without className
DocNoClassName ==
  SaveDoc("Zed", Missing, Null, << >>, << "codice" >>, << "a2" >>, Null, "c1")

\* the documents that lack the name, subclass, origin and community fields
MinimalDocs == { DocMinimal, DocOld }

Files ==
  { File("unreadable", DocMinimal), File("garbage", DocMinimal),
    File("null", DocMinimal), File("scalarAbilities", DocFull),
    File("object", DocMinimal), File("object", DocOld),
    File("object", DocFull), File("object", DocNoClassName) }

\* loadSave: the promise resolves with JSON.parse(text) or rejects
loadSave(file) ==
  IF file.kind = "unreadable"
  THEN [ ok |-> FALSE, err |-> "Error: Errore lettura file" ]
  ELSE IF file.kind = "garbage"
       THEN [ ok |-> FALSE, err |-> "Error: File JSON non valido" ]
       ELSE [ ok |-> TRUE, err |-> Null ]

\* fromSave(save) when new Set(save.selectedAbilities) throws: the statements
\* before it have run, the ones after it have not
fromSaveThrows(save) ==
  /\ characterName' = IF variant = "auto" THEN Coalesce(save.characterName, "")
                      ELSE characterName
  /\ className' = save.className
  /\ selectedSubclass' = IF variant = "auto" THEN Coalesce(save.selectedSubclass, Null)
                         ELSE selectedSubclass
  /\ selectedDomains' = save.selectedDomains
  /\ UNCHANGED << selectedAbilities, selectedOrigin, selectedCommunity >>

\* the alert dialog is modal: the page takes no input until it is dismissed
dismissAlert ==
  /\ lastAlert # Null
  /\ lastAlert' = Null
  /\ UNCHANGED << variant, heap, catalog, network, selection, exporter, printer >>

\* @change of the file input: store.fromSave(await loadSave(file)), any
\* exception reported with alert(String(err))
onLoadFile(file) ==
  /\ viewShown
  /\ lastAlert = Null
  /\ \/ /\ ~loadSave(file).ok
        /\ lastAlert' = loadSave(file).err
        /\ UNCHANGED << variant, heap, catalog, network, selection, exporter, printer >>
     \/ /\ file.kind = "null"
        /\ lastAlert' = "TypeError: Cannot read properties of null"
        /\ UNCHANGED << variant, heap, catalog, network, selection, exporter, printer >>
     \/ /\ file.kind = "scalarAbilities"
        /\ fromSaveThrows(file.doc)
        /\ lastAlert' = "TypeError: number 5 is not iterable"
        /\ sharesDomains' = FALSE
        /\ sharesPair' = Null
        /\ UNCHANGED << variant, heldDoc, classTable, catalog, network, exporter, printer >>
     \/ /\ file.kind = "object"
        /\ fromSave(file.doc)

\* ---------------------------------------------------------------------------
\* Archive export (BuilderView.onDownloadZip, useDownload.downloadSet)
\* ---------------------------------------------------------------------------
\* the card a selected id resolves to: CardIndex | null as a list of 0 or 1
originCard ==
  IF Truthy(selectedOrigin) /\ hasCard(selectedOrigin)
  THEN << findCard(selectedOrigin) >> ELSE << >>

communityCard ==
  IF Truthy(selectedCommunity) /\ hasCard(selectedCommunity)
  THEN << findCard(selectedCommunity) >> ELSE << >>

selectedAbilityCards ==
  filterSeq(allCards, { c \in Range(allCards) : c.id \in selectedAbilities })

hasAnyCard ==
  \/ originCard # << >>
  \/ communityCard # << >>
  \/ Len(classCards) # 0
  \/ Len(selectedAbilityCards) # 0

\* img.split('/').pop()
baseName(img) == img[Len(img)]

\* every ability filed under abilita/ itself, whatever its dominio
abilityFolder_flat(card) == << "abilita" >>

\* `abilita/${card.dominio ?? 'altro'}`
abilityFolder(card) == << "abilita", Coalesce(card.dominio, "altro") >>

\* the images downloadSet fetches, in order, each with the folder it goes to
itemsIn(folder, cards) ==
  [ i \in 1..Len(cards) |-> [ folder |-> folder, card |-> cards[i] ] ]

abilityItems(cards) ==
  [ i \in 1..Len(cards) |-> [ folder |-> abilityFolder(cards[i]), card |-> cards[i] ] ]

exportItems(origin, community, classi, abilities) ==
  itemsIn(<< "origine" >>, origin) \o itemsIn(<< "comunita" >>, community)
    \o itemsIn(<< "classi" >>, classi) \o abilityItems(abilities)

\* folder.file(name, blob): a file already at that path is replaced
zipFile(z, item) ==
  LET name == baseName(item.card.img) IN
  [ z EXCEPT
      !.folders = @ \cup { item.folder },
      !.files   = { f \in @ : ~(f.folder = item.folder /\ f.name = name) }
                    \cup { [ folder |-> item.folder, name |-> name,
                             blob |-> item.card.img ] } ]

\* click on "Scarica": downloadSet(store.toSave(), originCard, communityCard,
\* store.classCards, selectedAbilityCards) up to its first await. The classi
\* folder, made once the origin and community images are in, is entered here.
onDownloadZip(now) ==
  /\ viewShown
  /\ lastAlert = Null
  /\ ~downloading
  /\ hasAnyCard
  /\ downloading' = TRUE
  /\ zip' = [ save |-> << toSave(now) >>, files |-> {},
              folders |-> { << "classi" >> } ]
  /\ job' = [ save  |-> << toSave(now) >>,
              items |-> exportItems(originCard, communityCard, classCards,
                                    selectedAbilityCards),
              done  |-> 0 ]
  /\ UNCHANGED << variant, heap, catalog, network, selection, lastAlert, lastDownload, printer >>

\* a download loop that reads the views again after each await instead of
\* the arrays it was called with
exportFetchOk_liveViews ==
  LET live == exportItems(originCard, communityCard, classCards,
                          selectedAbilityCards) IN
  /\ downloading
  /\ job.done < Len(job.items)
  /\ zip' = IF job.done < Len(live) THEN zipFile(zip, live[job.done + 1]) ELSE zip
  /\ job' = [ job EXCEPT !.items = live,
                         !.done = IF job.done < Len(live) THEN job.done + 1
                                  ELSE Len(live) ]
  /\ UNCHANGED << variant, heap, catalog, network, selection, lastAlert, downloading,
                  lastDownload, printer >>

\* fetchBlob of the next image answers ok: the file is added
exportFetchOk ==
  /\ downloading
  /\ job.done < Len(job.items)
  /\ zip' = zipFile(zip, job.items[job.done + 1])
  /\ job' = [ job EXCEPT !.done = @ + 1 ]
  /\ UNCHANGED << variant, heap, catalog, network, selection, lastAlert, downloading,
                  lastDownload, printer >>

\* a failing fetch that is skipped: the archive is generated from the images
\* fetched so far
exportFetchFail_offersPartial ==
  /\ downloading
  /\ job.done < Len(job.items)
  /\ lastDownload' = << zip >>
  /\ downloading' = FALSE
  /\ zip' = NoZip
  /\ job' = NoJob
  /\ UNCHANGED << variant, heap, catalog, network, selection, lastAlert, printer >>

\* fetchBlob of the next image rejects or answers not-ok: downloadSet throws
\* and its zip is dropped, onDownloadZip's finally clears downloading
exportFetchFail ==
  /\ downloading
  /\ job.done < Len(job.items)
  /\ downloading' = FALSE
  /\ zip' = NoZip
  /\ job' = NoJob
  /\ UNCHANGED << variant, heap, catalog, network, selection, lastAlert,
                  lastDownload, printer >>

\* every image is in: zip.generateAsync, then the anchor click offers the blob
exportGenerate ==
  /\ downloading
  /\ job.done = Len(job.items)
  /\ lastDownload' = << zip >>
  /\ downloading' = FALSE
  /\ zip' = NoZip
  /\ job' = NoJob
  /\ UNCHANGED << variant, heap, catalog, network, selection, lastAlert, printer >>

\* ---------------------------------------------------------------------------
\* Printing (usePrint.printCards)
\* ---------------------------------------------------------------------------
PER_PAGE == 9

\* [...(originCard ? [originCard] : []), ...(communityCard ? [communityCard] : []),
\*  ...classCards, ...abilityCards]
printOrder(args) ==
  args.originCard \o args.communityCard \o args.classCards \o args.abilityCards

\* Array.prototype.slice(i, j) with 0-based i and j, j clipped to the length
slice(s, i, j) == SubSeq(s, i + 1, IF j < Len(s) THEN j ELSE Len(s))

\* for (let i = 0; i < cards.length; i += PER_PAGE) pages.push(cards.slice(i, i + PER_PAGE))
RECURSIVE pagesFrom(_, _)
pagesFrom(cards, i) ==
  IF i < Len(cards)
  THEN << slice(cards, i, i + PER_PAGE) >> \o pagesFrom(cards, i + PER_PAGE)
  ELSE << >>

\* a cell of the grid: empty, or the image cardsBase + card.img
emptyCell   == [ empty |-> TRUE,  src |-> << >> ]
cellOf(card) == [ empty |-> FALSE, src |-> << "cards" >> \o card.img ]

\* renderPage that writes a cell per card and no padding
renderPage_noPadding(page) == [ i \in 1..Len(page) |-> cellOf(page[i]) ]

\* Array.from({ length: PER_PAGE }, (_, i) => page[i] ? <img cell> : <empty cell>)
renderPage(page) ==
  [ i \in 1..PER_PAGE |-> IF i <= Len(page) THEN cellOf(page[i]) ELSE emptyCell ]

\* pages.map(renderPage)
printDocument(cards) ==
  LET pages == pagesFrom(cards, 0) IN [ p \in 1..Len(pages) |-> renderPage(pages[p]) ]

\* printCards(originCard, communityCard, classCards, abilityCards); popup tells
\* whether window.open returns a window
printCards(popup) ==
  /\ lastAlert = Null
  /\ LET cards == printOrder(printArgs) IN
       IF Len(cards) = 0
       THEN /\ lastAlert' = "Nessuna carta selezionata da stampare."
            /\ UNCHANGED printWindow
       ELSE IF ~popup
            THEN /\ lastAlert' = "Abilita i popup del browser per usare la stampa."
                 /\ UNCHANGED printWindow
            ELSE /\ printWindow' = << printDocument(cards) >>
                 /\ UNCHANGED lastAlert
  /\ UNCHANGED << variant, heap, catalog, network, selection, exporter, printArgs >>

\* the four arguments BuilderView passes to printCards and downloadSet
selectedCards ==
  [ originCard |-> originCard, communityCard |-> communityCard,
    classCards |-> classCards, abilityCards |-> selectedAbilityCards ]

\* click on "Stampa" (disabled without a card): printCards(originCard,
\* communityCard, store.classCards, selectedAbilityCards)
onPrint(popup) ==
  /\ viewShown
  /\ lastAlert = Null
  /\ hasAnyCard
  /\ printArgs' = selectedCards
  /\ IF Len(printOrder(selectedCards)) = 0
     THEN /\ lastAlert' = "Nessuna carta selezionata da stampare."
          /\ UNCHANGED printWindow
     ELSE IF ~popup
          THEN /\ lastAlert' = "Abilita i popup del browser per usare la stampa."
               /\ UNCHANGED printWindow
          ELSE /\ printWindow' = << printDocument(printOrder(selectedCards)) >>
               /\ UNCHANGED lastAlert
  /\ UNCHANGED << variant, heap, catalog, network, selection, exporter >>

\* how many ability cards printCards is given at most
MaxPrintAbilities == 16

\* ability cards to print; each image file is named after the card's id
PrintDeckIds ==
  << "b01", "b02", "b03", "b04", "b05", "b06", "b07", "b08", "b09", "b10",
     "b11", "b12", "b13", "b14", "b15", "b16", "b17", "b18", "b19", "b20",
     "b21", "b22", "b23", "b24" >>

PrintDeck ==
  [ k \in 1..Len(PrintDeckIds) |->
      Card(PrintDeckIds[k], "CARTA", "dominio", "grazia", "abilita", "incantesimo",
           100 + k, PrintDeckIds[k]) ]

\* the arguments printCards is checked on
PrintInputs ==
  [ originCard    : { << >>, << Manifest[1] >> },
    communityCard : { << >>, << Manifest[2] >> },
    classCards    : { << >>, << Manifest[4], Manifest[3], Manifest[5] >> },
    abilityCards  : { SubSeq(PrintDeck, 1, n) : n \in 0..MaxPrintAbilities } ]

\* ---------------------------------------------------------------------------
\* Specification
\* ---------------------------------------------------------------------------
Next ==
  \/ AppMounted
  \/ loadCardsResolve
  \/ loadCardsReject
  \/ \E nome \in ClassNames : selectClass(nome)
  \/ \E nome \in SubclassNames \cup { Null } : selectSubclass(nome)
  \/ \E dominio \in Domains : toggleDomain(dominio)
  \/ \E id \in AbilityIds : toggleAbility(id)
  \/ \E id \in OriginIds \cup { Null } : selectOrigin(id)
  \/ \E id \in CommunityIds \cup { Null } : selectCommunity(id)
  \/ \E name \in CharacterNames : setCharacterName(name)
  \/ reset
  \/ \E save \in SaveDocs : fromSave(save)
  \/ \E now \in Dates : RoundTrip(now)
  \/ \E card \in Range(Manifest) : clickOrigin(card)
  \/ \E card \in Range(Manifest) : clickCommunity(card)

Spec == Init /\ [][Next]_vars

\* the catalog loader alone, called repeatedly
NextLoad ==
  \/ AppMounted
  \/ loadCardsAgain
  \/ loadCardsResolve
  \/ loadCardsResolveEmpty
  \/ loadCardsReject

SpecLoad == Init /\ [][NextLoad]_vars

\* the builder with its file input: the store is edited and saves are loaded
NextUpload ==
  \/ AppMounted
  \/ loadCardsResolve
  \/ \E nome \in ClassNames : selectClass(nome)
  \/ \E nome \in SubclassNames : selectSubclass(nome)
  \/ \E id \in AbilityIds : toggleAbility(id)
  \/ \E id \in OriginIds : selectOrigin(id)
  \/ \E id \in CommunityIds : selectCommunity(id)
  \/ \E name \in CharacterNames : setCharacterName(name)
  \/ \E file \in Files : onLoadFile(file)
  \/ dismissAlert

SpecUpload == Init /\ [][NextUpload]_vars

ExportDates == { "2025-06-30T12:00:00.000Z" }

\* ids toggled while exporting: an ability, and the origin and community cards
ExportAbilityIds == { "a2", "o1", "c1" }

\* the builder with its download button: the selection is edited between
\* exports, an export runs from the click to the download or the failure
NextExport ==
  \/ AppMounted
  \/ loadCardsResolve
  \/ ~downloading /\ selectClass("Mago")
  \/ ~downloading /\ \E id \in ExportAbilityIds : toggleAbility(id)
  \/ ~downloading /\ \E card \in Range(Manifest) : clickOrigin(card)
  \/ ~downloading /\ \E card \in Range(Manifest) : clickCommunity(card)
  \/ \E now \in ExportDates : onDownloadZip(now)
  \/ exportFetchOk
  \/ exportFetchFail
  \/ exportGenerate

SpecExport == Init /\ [][NextExport]_vars

\* printCards on each of its inputs
InitPrint ==
  /\ InitStore
  /\ printArgs \in PrintInputs

NextPrint ==
  \/ \E popup \in BOOLEAN : printCards(popup)
  \/ dismissAlert

SpecPrint == InitPrint /\ [][NextPrint]_vars

\* the derived views over every catalog: the catalog is loaded once, a class,
\* a subclass and domains are picked
ViewClassNames == { "Bardo", "NOMADE" }
ViewDomains    == { "grazia", "codice" }

NextViews ==
  \/ AppMounted
  \/ \E manifest \in Catalogs : loadCardsResolveWith(manifest)
  \/ \E nome \in ViewClassNames : selectClass(nome)
  \/ \E nome \in SubclassNames \cup { Null } : selectSubclass(nome)
  \/ \E dominio \in ViewDomains : toggleDomain(dominio)

SpecViews == Init /\ [][NextViews]_vars

\* saves of another catalog: some or all of their ids resolve to no card
DocStaleCommunity ==
  SaveDoc("Aria", "Bardo", "TROVATORE", << "k1", "k2" >>,
          << "grazia", "codice" >>, << "a1", "zz" >>, "o1", "c9")

DocAllStale ==
  SaveDoc("Zed", "Pirata", Null, << "k9" >>, << "osso" >>, << "zz", "yy" >>, "o2", "c9")

StaleFiles ==
  { File("object", DocStale), File("object", DocStaleCommunity),
    File("object", DocAllStale), File("object", DocFull) }

\* the builder after uploads of such saves: loading, printing and exporting
NextStale ==
  \/ AppMounted
  \/ loadCardsResolve
  \/ \E file \in StaleFiles : onLoadFile(file)
  \/ dismissAlert
  \/ \E popup \in BOOLEAN : onPrint(popup)
  \/ \E now \in ExportDates : onDownloadZip(now)
  \/ exportFetchOk
  \/ exportFetchFail
  \/ exportGenerate

SpecStale == Init /\ [][NextStale]_vars

\* the builder's Classe and Abilità tabs: domains are clicked, abilities
\* toggled and classes selected, from the empty selection or from a loaded save
NextBuilder ==
  \/ AppMounted
  \/ loadCardsResolve
  \/ \E save \in SaveDocs : fromSave(save)
  \/ \E d \in Domains : clickDomain(d)
  \/ \E id \in AbilityIds : toggleAbility(id)
  \/ \E nome \in ClassNames : selectClass(nome)

SpecBuilder == Init /\ [][NextBuilder]_vars

\* the store used by a caller that keeps a document: the one it passes to
\* fromSave, or the one it gets from toSave
KeptDocs == { DocFull, DocDuplicate, DocStale }

NextAlias ==
  \/ AppMounted
  \/ loadCardsResolve
  \/ heldDoc = << >> /\ \E save \in KeptDocs : fromSaveKept(save)
  \/ heldDoc = << >> /\ \E now \in ExportDates : toSaveKept(now)
  \/ \E dominio \in Domains : toggleDomain(dominio)
  \/ toggleAbility("a2")
  \/ selectClass("Mago")
  \/ reset

SpecAlias == Init /\ [][NextAlias]_vars

\* the store while the catalog is being fetched: saves are loaded and domains
\* toggled before, during and after the load; nothing else touches the
\* selected abilities
NextCascade ==
  \/ AppMounted
  \/ loadCardsResolve
  \/ \E save \in SaveDocs : fromSave(save)
  \/ \E dominio \in Domains : toggleDomain(dominio)

SpecCascade == Init /\ [][NextCascade]_vars

\* the builder while an export is awaiting its image fetches: the download
\* button is disabled, every other control stays live, so the store actions
\* interleave with the fetches
NextSnapshot ==
  \/ AppMounted
  \/ loadCardsResolve
  \/ toggleAbility("a2")
  \/ toggleDomain("codice")
  \/ selectClass("Mago")
  \/ selectOrigin("o1")
  \/ fromSave(DocFull)
  \/ reset
  \/ \E now \in ExportDates : onDownloadZip(now)
  \/ exportFetchOk
  \/ exportFetchFail
  \/ exportGenerate

SpecSnapshot == Init /\ [][NextSnapshot]_vars


\* ---------------------------------------------------------------------------
\* Properties
\* ---------------------------------------------------------------------------
NoDuplicates(s) == \A i, j \in 1..Len(s) : i # j => s[i] # s[j]

\* ids of the catalog cards of a domain
idsOfDomain(d) == { c.id : c \in { x \in Range(allCards) : x.dominio = d } }

\* the selection fields toggleDomain must leave alone
toggleDomainFrame ==
  << variant, catalog, characterName, className, selectedSubclass,
     selectedOrigin, selectedCommunity >>

C2_CascadeOnRemoval ==
  [][ \A d \in Domains :
        (toggleDomain(d) /\ Len(allCards) > 0 /\ d \in Range(selectedDomains))
          => /\ selectedAbilities' \cap idsOfDomain(d) = {}
             /\ selectedAbilities \ idsOfDomain(d) \subseteq selectedAbilities'
             /\ selectedAbilities' \subseteq selectedAbilities ]_vars

\* C2 witness: catalog loaded, grazia and codice selected with an ability of
\* each and an unresolvable id; toggleDomain(grazia) removes a1 and keeps a2
\* and zz.
C2_Witness ==
  /\ Len(allCards) > 0
  /\ selectedDomains = << "grazia", "codice" >>
  /\ selectedAbilities = { "a1", "a2", "zz" }
  /\ ENABLED (toggleDomain("grazia") /\ selectedAbilities' = { "a2", "zz" })

\* every selected ability id resolves to an ability card of a selected domain
AbilitiesWithinDomains ==
  \A id \in selectedAbilities :
    /\ hasCard(id)
    /\ findCard(id).sottocategoria = "abilita"
    /\ findCard(id).dominio \in Range(selectedDomains)

\* C3 as stated: after every store action every id in selectedAbilities
\* resolves to a catalog card with sottocategoria 'abilita' and a dominio in
\* selectedDomains.
C3_AbilitiesAlwaysWithinDomains == AbilitiesWithinDomains

\* C3 amended: the store keeps that property but does not establish it.
\* Every step other than toggleAbility and fromSave (which store the ids they
\* are given unchecked) preserves it.
C3_PreservedExceptUncheckedIds ==
  [][ ( /\ AbilitiesWithinDomains
        /\ ~ \E id \in AbilityIds : toggleAbility(id)
        /\ ~ \E save \in SaveDocs : fromSave(save) )
      => AbilitiesWithinDomains' ]_vars

\* C3 witness: the property holds with an ability of each selected domain,
\* and removing a domain keeps it by removing that domain's ability.
C3_Witness ==
  /\ Len(allCards) > 0
  /\ selectedDomains = << "grazia", "codice" >>
  /\ selectedAbilities = { "a1", "a2" }
  /\ AbilitiesWithinDomains
  /\ ENABLED (toggleDomain("grazia") /\ selectedAbilities' = { "a2" })

\* C4: selectClass(n) sets className to n, clears subclass and abilities and
\* sets the domains to the default of n: its CLASS_DOMAINS pair in the auto
\* variant (empty when n has no pair), empty in the manual variant.
C4_SelectClassResets ==
  [][ \A n \in ClassNames :
        selectClass(n)
          => /\ className' = n
             /\ selectedSubclass' = Null
             /\ selectedAbilities' = {}
             /\ selectedDomains' =
                  IF variant = "auto" /\ n \in DOMAIN CLASS_DOMAINS
                  THEN CLASS_DOMAINS[n] ELSE << >>
             /\ UNCHANGED << variant, heap, catalog, characterName,
                             selectedOrigin, selectedCommunity >> ]_vars

\* C4 witness: Bardo with a subclass, an ability, an origin and a name; then
\* selectClass(Mago) leaves Mago's pair and clears subclass and abilities.
C4_Witness ==
  /\ variant = "auto"
  /\ className = "Bardo"
  /\ selectedSubclass = "TROVATORE"
  /\ selectedDomains = << "grazia" >>
  /\ selectedAbilities = { "a1" }
  /\ selectedOrigin = "o1"
  /\ characterName = "Aria"
  /\ ENABLED ( /\ selectClass("Mago")
               /\ selectedDomains' = << "codice", "splendore" >>
               /\ selectedSubclass' = Null
               /\ selectedAbilities' = {}
               /\ selectedOrigin' = "o1" )


\* C5 as stated: fromSave(toSave()) reproduces every selection field of every
\* state, the empty initial state included.
C5_RoundTripExact ==
  [][ \A now \in Dates : RoundTrip(now) => UNCHANGED selection ]_vars

\* C6: toggleAbility(id) flips the membership of exactly id, for any id,
\* changes nothing else, and a second toggleAbility(id) restores the set.
C6_ToggleAbilityFlips ==
  [][ \A id \in AbilityIds :
        toggleAbility(id)
          => /\ (id \in selectedAbilities') <=> (id \notin selectedAbilities)
             /\ selectedAbilities' \ { id } = selectedAbilities \ { id }
             /\ toggled(selectedAbilities', id) = selectedAbilities
             /\ UNCHANGED << variant, heap, catalog, characterName, className,
                             selectedSubclass, selectedDomains,
                             selectedOrigin, selectedCommunity >> ]_vars

\* C6 witness: catalog loaded, no domain selected, and the id zz that
\* resolves to no card is toggled in.
C6_Witness ==
  /\ Len(allCards) > 0
  /\ selectedDomains = << >>
  /\ ~ hasCard("zz")
  /\ "zz" \notin selectedAbilities
  /\ ENABLED (toggleAbility("zz") /\ "zz" \in selectedAbilities')

\* C7 as stated: no domain occurs twice in selectedDomains in any reachable
\* state (fromSave of any document included), and toggleDomain of an absent
\* domain puts it after the selected ones without reordering them.
C7_DomainsOrderedSet ==
  /\ [] NoDuplicates(selectedDomains)
  /\ [][ \A d \in Domains :
           (toggleDomain(d) /\ d \notin Range(selectedDomains))
             => selectedDomains' = Append(selectedDomains, d) ]_vars

\* C8 as stated, read in the claim's favour (catalog loaded, class known to
\* the catalog): selectedSubclass is null or one of the subclass names of the
\* selected class.
C8_SubclassOfClass ==
  (Len(allCards) > 0 /\ Len(activeClassCards) > 0)
    => (selectedSubclass = Null \/ selectedSubclass \in Range(subclasses))

\* the fields selectOrigin must leave alone
originFrame ==
  << variant, catalog, characterName, className, selectedSubclass,
     selectedDomains, selectedAbilities, selectedCommunity >>

\* the fields selectCommunity must leave alone
communityFrame ==
  << variant, catalog, characterName, className, selectedSubclass,
     selectedDomains, selectedAbilities, selectedOrigin >>

\* C9 as stated: the store actions toggle. selectOrigin(id) clears
\* selectedOrigin when it already equals id and sets it to id otherwise, and
\* likewise selectCommunity; nothing else changes.
C9_StoreActionsToggle ==
  /\ \A id \in OriginIds :
       ~ ENABLED ( /\ selectOrigin(id)
                   /\ ~ ( /\ selectedOrigin' = IF selectedOrigin = id THEN Null ELSE id
                          /\ UNCHANGED originFrame ) )
  /\ \A id \in CommunityIds :
       ~ ENABLED ( /\ selectCommunity(id)
                   /\ ~ ( /\ selectedCommunity' = IF selectedCommunity = id THEN Null ELSE id
                          /\ UNCHANGED communityFrame ) )

\* C9 amended: the toggle is the builder view's. A click on the origin
\* (community) card whose id is the selected one clears the field, a click on
\* another card sets it to that card's id; the store's selectOrigin(id) and
\* selectCommunity(id) set the field to their argument, also when it is the
\* id already selected; none changes any other field.
C9_ViewTogglesStoreSets ==
  /\ \A id \in OriginIds \cup { Null } :
       ~ ENABLED ( /\ selectOrigin(id)
                   /\ ~ (selectedOrigin' = id /\ UNCHANGED originFrame) )
  /\ \A id \in CommunityIds \cup { Null } :
       ~ ENABLED ( /\ selectCommunity(id)
                   /\ ~ (selectedCommunity' = id /\ UNCHANGED communityFrame) )
  /\ \A card \in Range(Manifest) :
       ~ ENABLED ( /\ clickOrigin(card)
                   /\ ~ ( /\ selectedOrigin' =
                               IF selectedOrigin = card.id THEN Null ELSE card.id
                          /\ UNCHANGED originFrame ) )
  /\ \A card \in Range(Manifest) :
       ~ ENABLED ( /\ clickCommunity(card)
                   /\ ~ ( /\ selectedCommunity' =
                               IF selectedCommunity = card.id THEN Null ELSE card.id
                          /\ UNCHANGED communityFrame ) )

\* C9 witness: the view is shown with origin o1 and community c1 selected;
\* the store call with the same id keeps it, the click on the same card
\* clears it.
C9_Witness ==
  /\ viewShown
  /\ selectedOrigin = "o1"
  /\ selectedCommunity = "c1"
  /\ ENABLED (selectOrigin("o1") /\ selectedOrigin' = "o1")
  /\ ENABLED (clickOrigin(findCard("o1")) /\ selectedOrigin' = Null)
  /\ ENABLED (selectCommunity("c1") /\ selectedCommunity' = "c1")
  /\ ENABLED (clickCommunity(findCard("c1")) /\ selectedCommunity' = Null)

\* the selection the store is created with
InitialSelection == << "", Null, Null, << >>, {}, Null, Null >>

\* C10: reset yields the selection the store had at creation and leaves
\* allCards, loading and error unchanged.
C10_ResetRestoresInitial ==
  [][ reset => (selection' = InitialSelection /\ UNCHANGED << variant, heap, catalog >>) ]_vars

\* C10 witness: every selection field set, catalog loaded; reset is about to
\* clear them all.
C10_Witness ==
  /\ Len(allCards) > 0
  /\ characterName = "Aria"
  /\ className = "Mago"
  /\ selectedSubclass # Null
  /\ selectedDomains # << >>
  /\ selectedAbilities # {}
  /\ selectedOrigin # Null
  /\ selectedCommunity # Null
  /\ ENABLED (reset /\ selection' = InitialSelection /\ allCards' = allCards)

\* ---------------------------------------------------------------------------
\* Properties of the catalog loader (SpecLoad)
\* ---------------------------------------------------------------------------
\* a step that is a loadCards call / the completion of a failed fetch
isLoadCall   == loadCalls' = loadCalls + 1
isLoadFailed == outcomes' = Append(outcomes, "failed")

\* C14 as stated: when the calls are each awaited before the next and the
\* first fetch succeeds, the manifest is fetched exactly once.
C14_FetchedOnceAfterSuccess ==
  (~overlapped /\ outcomes # << >> /\ outcomes[1] \in { "ok", "empty" })
    => fetchCount = 1

\* C14: a loadCards call made while allCards is non-empty issues no fetch and
\* leaves allCards, loading and error alone, so with awaited calls whose first
\* fetch returns a non-empty manifest exactly one fetch is ever issued; a call
\* made while allCards is empty (also after a successful fetch of an empty
\* manifest) issues a fetch and sets loading.
C14_FetchedOnceWhenPopulated ==
  /\ [](( ~overlapped /\ outcomes # << >> /\ outcomes[1] = "ok") => fetchCount = 1)
  /\ [][isLoadCall =>
          IF Len(allCards) # 0
          THEN UNCHANGED << catalog, fetches, fetchCount >>
          ELSE fetchCount' = fetchCount + 1 /\ fetches' = fetches + 1 /\ loading']_vars

\* a third awaited call after a first fetch that succeeded: one fetch in all
C14_Witness ==
  /\ ~overlapped
  /\ outcomes = << "ok" >>
  /\ loadCalls = 3
  /\ fetchCount = 1
  /\ allCards = Manifest /\ ~loading /\ error = Null

\* C15 as stated: at most one manifest fetch is in flight at any time.
C15_AtMostOneFetchInFlight == fetches <= 1

C17_LoadedNotInError ==
  (~overlapped /\ Len(allCards) # 0) => error = Null

\* ---------------------------------------------------------------------------
\* Properties of loading a save (SpecUpload)
\* ---------------------------------------------------------------------------
\* C11: loading a document that has className, selectedDomains and
\* selectedAbilities but no characterName, selectedSubclass, selectedOrigin or
\* selectedCommunity succeeds (no alert), sets characterName to '' and the other
\* three to null whatever they held, and takes the three present fields from
\* the document.
C11_MissingFieldsDefaulted ==
  [][\A doc \in MinimalDocs :
       onLoadFile(File("object", doc)) =>
         /\ lastAlert' = Null
         /\ characterName' = ""
         /\ selectedSubclass' = Null
         /\ selectedOrigin' = Null
         /\ selectedCommunity' = Null
         /\ className' = doc.className
         /\ selectedDomains' = doc.selectedDomains
         /\ selectedAbilities' = Range(doc.selectedAbilities)]_vars

\* every optional field is set, and the minimal document is about to clear them
C11_Witness ==
  /\ characterName = "Aria"
  /\ selectedSubclass = "TROVATORE"
  /\ selectedOrigin = "o1"
  /\ selectedCommunity = "c1"
  /\ ENABLED (onLoadFile(File("object", DocMinimal))
               /\ characterName' = "" /\ selectedSubclass' = Null
               /\ selectedOrigin' = Null /\ selectedCommunity' = Null)

\* the file is not JSON, or its JSON value lacks a required field
Malformed(file) ==
  \/ file.kind \in { "garbage", "null", "scalarAbilities" }
  \/ file.kind = "object" /\ file.doc.className = Missing

\* C12 as stated: loading a file that is not valid JSON or lacks className,
\* selectedDomains (an array) or selectedAbilities (an array) fails with an
\* error and nothing of it is accepted into the selection.
C12_MalformedRejected ==
  [][\A file \in Files :
       (Malformed(file) /\ onLoadFile(file)) =>
         (lastAlert' # Null /\ UNCHANGED selection)]_vars

\* C13 as stated: a load either completes, or fails and leaves every selection
\* field as it was.
C13_AllOrNothing ==
  [][\A file \in Files :
       onLoadFile(file) => (lastAlert' = Null \/ UNCHANGED selection)]_vars

\* ---------------------------------------------------------------------------
\* Properties of the archive export (SpecExport)
\* ---------------------------------------------------------------------------
\* a step that starts an export, ends it on a failed fetch, ends it with a download
isExportStart == ~downloading /\ downloading'
isExportFail  == downloading /\ ~downloading' /\ job.done < Len(job.items)
isExportDone  == downloading /\ ~downloading' /\ job.done = Len(job.items)

\* where the image of a card passed to downloadSet belongs in the archive
pathIn(folder, card) == << folder, baseName(card.img) >>
expectedPaths ==
  { pathIn(<< "origine" >>, c) : c \in Range(originCard) }
    \cup { pathIn(<< "comunita" >>, c) : c \in Range(communityCard) }
    \cup { pathIn(<< "classi" >>, c) : c \in Range(classCards) }
    \cup { pathIn(<< "abilita", IF c.dominio = Null THEN "altro" ELSE c.dominio >>, c) :
             c \in Range(selectedAbilityCards) }
cardsPassed ==
  Len(originCard) + Len(communityCard) + Len(classCards) + Len(selectedAbilityCards)
pathsOf(archive) == { << f.folder, f.name >> : f \in archive.files }

\* C18: an export whose image fetch fails offers no archive, leaves the last
\* download and the selection as they were and drops its zip; no export step
\* writes the selection; every export starts from an empty zip, so the archive
\* of a retry holds only images of the cards passed to that retry.
C18_ExportAllOrNothing ==
  [][/\ isExportFail =>
          (lastDownload' = lastDownload /\ zip' = NoZip /\ UNCHANGED selection)
     /\ (downloading \/ downloading') => UNCHANGED selection
     /\ isExportStart => (zip'.files = {} /\ zip'.save = job'.save)
     /\ isExportDone =>
          \A f \in lastDownload'[1].files :
             \E i \in 1..Len(job.items) :
                /\ f.folder = job.items[i].folder
                /\ f.blob = job.items[i].card.img]_vars

\* an export that has fetched an image and whose next fetch can fail
C18_Witness ==
  /\ downloading
  /\ job.done >= 1
  /\ zip.files # {}
  /\ ENABLED (exportFetchFail /\ lastDownload' = lastDownload /\ zip' = NoZip)

toPrint ==
  printArgs.originCard \o printArgs.communityCard
    \o printArgs.classCards \o printArgs.abilityCards

\* C20: with n cards in the order origin, community, class cards, abilities,
\* the document has ceil(n/9) pages of exactly 9 cells, card k (from 0) is in
\* cell k mod 9 of page k div 9, and the cells after the last card, all on the
\* last page, are the only empty ones; with n = 0 printCards alerts that no
\* card is selected, writes no document and opens no window.
C20_PrintLayout ==
  /\ [](printWindow # << >> =>
         LET cards == toPrint
             n     == Len(cards)
             pages == printWindow[1]
         IN
           /\ n > 0
           /\ Len(pages) = (n + 8) \div 9
           /\ \A p \in 1..Len(pages) : Len(pages[p]) = 9
           /\ \A k \in 0..(n - 1) :
                LET cell == pages[(k \div 9) + 1][(k % 9) + 1] IN
                  ~cell.empty /\ cell.src = << "cards" >> \o cards[k + 1].img
           /\ \A p \in 1..Len(pages) : \A i \in 1..9 :
                pages[p][i].empty <=> ((p - 1) * 9 + i > n)
           /\ \A i \in 1..9 : \A p \in 1..(Len(pages) - 1) : ~pages[p][i].empty)
  /\ [](Len(toPrint) = 0 => printWindow = << >>)
  /\ [][(Len(toPrint) = 0 /\ lastAlert = Null /\ lastAlert' # lastAlert)
          => lastAlert' = "Nessuna carta selezionata da stampare."]_vars

\* 21 cards printed: three pages, the last one with six empty cells
C20_Witness ==
  /\ Len(printOrder(printArgs)) = 21
  /\ printArgs.originCard # << >>
  /\ printArgs.communityCard # << >>
  /\ printWindow # << >>
  /\ Len(printWindow[1]) = 3
  /\ printWindow[1][3][4].empty


\* ---------------------------------------------------------------------------
\* Reference tables
\* ---------------------------------------------------------------------------
\* the classes SUBCLASS_TO_CLASS names
mappedClasses == { SUBCLASS_TO_CLASS[n] : n \in DOMAIN SUBCLASS_TO_CLASS }

\* the subclass names SUBCLASS_TO_CLASS maps to a class
subclassesOf(cls) == { n \in DOMAIN SUBCLASS_TO_CLASS : SUBCLASS_TO_CLASS[n] = cls }

\* the classes whose pair holds a domain
classesWith(d) == { cls \in DOMAIN CLASS_DOMAINS : d \in Range(CLASS_DOMAINS[cls]) }

\* C21: CLASS_DOMAINS is a circular chain. Every class has two distinct
\* domains, each of the 9 domains is in the pairs of exactly two classes, the
\* first domain of a class is its primary domain in CLASS_DOMAIN_MAP, and
\* every class SUBCLASS_TO_CLASS names has an entry in both tables and exactly
\* two subclasses; so the pair of the selected class, whichever it is, starts
\* on its primary domain and ends on another domain.
C21_CircularChain ==
  /\ \A cls \in DOMAIN CLASS_DOMAINS :
       /\ Len(CLASS_DOMAINS[cls]) = 2
       /\ CLASS_DOMAINS[cls][1] # CLASS_DOMAINS[cls][2]
       /\ Range(CLASS_DOMAINS[cls]) \subseteq Range(AllDomains)
       /\ cls \in DOMAIN CLASS_DOMAIN_MAP
       /\ CLASS_DOMAINS[cls][1] = CLASS_DOMAIN_MAP[cls]
  /\ Len(AllDomains) = 9
  /\ NoDuplicates(AllDomains)
  /\ \A d \in Range(AllDomains) : Cardinality(classesWith(d)) = 2
  /\ \A d \in Range(AllDomains) :
       \E first, second \in DOMAIN CLASS_DOMAINS :
         /\ first # second
         /\ CLASS_DOMAINS[first][2] = d
         /\ CLASS_DOMAINS[second][1] = d
  /\ \A cls \in mappedClasses :
       /\ cls \in DOMAIN CLASS_DOMAINS
       /\ cls \in DOMAIN CLASS_DOMAIN_MAP
       /\ Cardinality(subclassesOf(cls)) = 2
  /\ className \in DOMAIN CLASS_DOMAINS
       => /\ classDomainsOf(className)[1] = CLASS_DOMAIN_MAP[className]
          /\ classDomainsOf(className)[2] \in Range(AllDomains) \ { CLASS_DOMAIN_MAP[className] }

\* C21 witness: a class is selected and the selection is its pair, which
\* starts on its primary domain and ends on the next class's primary domain.
C21_Witness ==
  /\ variant = "auto"
  /\ className = "Bardo"
  /\ selectedDomains = CLASS_DOMAINS["Bardo"]
  /\ selectedDomains[1] = CLASS_DOMAIN_MAP["Bardo"]
  /\ selectedDomains[2] = CLASS_DOMAIN_MAP["Mago"]

\* ---------------------------------------------------------------------------
\* Derived views
\* ---------------------------------------------------------------------------
\* the positions of a card in a list
positionsIn(cards, c) == { i \in 1..Len(cards) : cards[i] = c }

\* the classes whose card set holds a card
classesHolding(c) == { i \in 1..Len(classes) : c \in Range(classes[i].cards) }

\* C22: `classes` partitions the class-feature cards of the catalog. Every
\* card with sottocategoria 'classi' is in the cards of exactly one class, at
\* one position, and that class is named SUBCLASS_TO_CLASS[nome], or nome
\* when the table has no such key; the classes hold no other card; the cards
\* of each class are in ascending pagina order.
C22_ClassesPartition ==
  /\ \A c \in Range(allCards) :
       c.sottocategoria = "classi"
         => /\ Cardinality(classesHolding(c)) = 1
            /\ \A i \in classesHolding(c) :
                 /\ Cardinality(positionsIn(classes[i].cards, c)) = 1
                 /\ classes[i].nome =
                      (IF c.nome \in DOMAIN SUBCLASS_TO_CLASS
                       THEN SUBCLASS_TO_CLASS[c.nome] ELSE c.nome)
  /\ \A i \in 1..Len(classes) :
       /\ classes[i].cards # << >>
       /\ \A c \in Range(classes[i].cards) :
            c \in Range(allCards) /\ c.sottocategoria = "classi"
       /\ \A j, k \in 1..Len(classes[i].cards) :
            j < k => classes[i].cards[j].pagina <= classes[i].cards[k].pagina
  /\ \A i, j \in 1..Len(classes) : i # j => classes[i].nome # classes[j].nome

\* C22 witness: the catalog lists a class's later page first, with a card
\* of a class SUBCLASS_TO_CLASS does not know in between; two classes come
\* out, in the order of their first cards, the first with its cards in page
\* order.
C22_Witness ==
  /\ idsOf(allCards) = << "k1", "k5", "k3" >>
  /\ Len(classes) = 2
  /\ classes[1].nome = "Bardo"
  /\ idsOf(classes[1].cards) = << "k3", "k1" >>
  /\ classes[2].nome = "NOMADE"
  /\ idsOf(classes[2].cards) = << "k5" >>

\* a card's level as the claim gives it: livello, or 0 when livello is null
expectedLevel(c) == IF Len(c.livello) = 0 THEN 0 ELSE c.livello[1]

\* the buckets of cardsByLevel that hold a card
bucketsHolding(c) == { k \in DOMAIN cardsByLevel : c \in Range(cardsByLevel[k]) }

\* C23: cardsByLevel partitions abilityCards, the catalog cards with
\* sottocategoria 'abilita' and dominio in selectedDomains. Every such card is
\* in exactly one bucket, once, the bucket of its livello or bucket 0 when
\* livello is null; the buckets hold nothing else and none is empty; levels
\* lists the bucket keys as numbers in strictly ascending order.
C23_LevelsPartition ==
  /\ Range(abilityCards) =
       { c \in Range(allCards) :
           c.sottocategoria = "abilita" /\ c.dominio \in Range(selectedDomains) }
  /\ \A c \in Range(abilityCards) :
       /\ bucketsHolding(c) = { keyOf(expectedLevel(c)) }
       /\ Cardinality(positionsIn(cardsByLevel[keyOf(expectedLevel(c))], c)) = 1
  /\ \A k \in DOMAIN cardsByLevel :
       /\ cardsByLevel[k] # << >>
       /\ Range(cardsByLevel[k]) \subseteq Range(abilityCards)
  /\ \A i, j \in 1..Len(levels) : i < j => levels[i] < levels[j]
  /\ Range(levels) = { expectedLevel(c) : c \in Range(abilityCards) }
  /\ Len(levels) = Cardinality(DOMAIN cardsByLevel)

\* C23 witness: one domain is selected; the catalog holds a card of another
\* domain, a card without level and a card of level 1 of the selected one.
C23_Witness ==
  /\ selectedDomains = << "grazia" >>
  /\ idsOf(allCards) = << "a2", "a1", "a4" >>
  /\ idsOf(abilityCards) = << "a1", "a4" >>
  /\ DOMAIN cardsByLevel = { "0", "1" }
  /\ idsOf(cardsByLevel["0"]) = << "a4" >>
  /\ idsOf(cardsByLevel["1"]) = << "a1" >>
  /\ levels = << 0, 1 >>

\* activeClass?.cards ?? []
activeCards == IF Len(activeClass) = 0 THEN << >> ELSE activeClass[1].cards

\* some class card of the catalog is grouped under className
classMatches ==
  \E c \in Range(allCards) :
    /\ c.sottocategoria = "classi"
    /\ className = (IF c.nome \in DOMAIN SUBCLASS_TO_CLASS
                    THEN SUBCLASS_TO_CLASS[c.nome] ELSE c.nome)

\* sub lists cards of full, each once, in the order they have in full
isSubsequence(sub, full) ==
  /\ \A c \in Range(sub) :
       Cardinality(positionsIn(sub, c)) = 1 /\ Cardinality(positionsIn(full, c)) = 1
  /\ \A i, j \in 1..Len(sub) :
       i < j => \A x \in positionsIn(full, sub[i]), y \in positionsIn(full, sub[j]) : x < y

\* C24: with a class selected, classCards is the whole page-ordered card set
\* of that class while selectedSubclass is null, and exactly the cards of the
\* class whose nome is selectedSubclass, in the same order, once a subclass is
\* set. In every state classCards is within the active class's cards, and it
\* is empty when no class of the catalog is named className.
C24_ClassCards ==
  /\ (className # Null /\ selectedSubclass = Null) => classCards = activeCards
  /\ (className # Null /\ selectedSubclass # Null)
       => /\ Range(classCards) = { c \in Range(activeCards) : c.nome = selectedSubclass }
          /\ isSubsequence(classCards, activeCards)
  /\ Range(classCards) \subseteq Range(activeCards)
  /\ ~classMatches => classCards = << >>
  /\ classMatches => /\ Len(activeClass) = 1
                      /\ activeClass[1].nome = className
                      /\ activeCards # << >>

\* C24 witness: a class with two subclasses is selected and narrowed to the
\* subclass of the later page; and the same class with no subclass selected
\* would show both cards in page order.
C24_Witness ==
  /\ variant = "auto"
  /\ className = "Bardo"
  /\ selectedSubclass = "TROVATORE"
  /\ idsOf(allCards) = << "k1", "k5", "k3" >>
  /\ idsOf(activeCards) = << "k3", "k1" >>
  /\ idsOf(classCards) = << "k1" >>
  /\ ENABLED (selectSubclass(Null) /\ idsOf(classCards)' = << "k3", "k1" >>)

\* ---------------------------------------------------------------------------
\* Ids that resolve to no card
\* ---------------------------------------------------------------------------
\* an id (null aside) no card of the catalog has
isStale(id) == Truthy(id) /\ \A c \in Range(allCards) : c.id # id

\* the selected ids no card of the catalog has
staleAbilities == { id \in selectedAbilities : isStale(id) }

\* the cards an archive holds, by the path they were fetched from
imagesOf(archive) == { f.blob : f \in archive.files }

\* the cards whose image a printed document shows
printedOf(document) ==
  { document[p][i].src : i \in 1..PER_PAGE, p \in 1..Len(document) } \ { << >> }

\* the views skip a stale id and show every other selected card
staleSkipped ==
  /\ idsOf(selectedAbilityCards) =
       idsOf(filterSeq(allCards, { c \in Range(allCards) : c.id \in selectedAbilities }))
  /\ Range(idsOf(selectedAbilityCards)) = selectedAbilities \ staleAbilities
  /\ isStale(selectedOrigin) => originCard = << >>
  /\ isStale(selectedCommunity) => communityCard = << >>
  /\ (Truthy(selectedOrigin) /\ ~isStale(selectedOrigin))
       => idsOf(originCard) = << selectedOrigin >>
  /\ (Truthy(selectedCommunity) /\ ~isStale(selectedCommunity))
       => idsOf(communityCard) = << selectedCommunity >>

\* toSave returns the selected ids as they are, stale or not
staleReturned ==
  \A now \in ExportDates :
    /\ Range(toSave(now).selectedAbilities) = selectedAbilities
    /\ toSave(now).selectedOrigin = selectedOrigin
    /\ toSave(now).selectedCommunity = selectedCommunity

\* loading a save raises no alert and stores its ids as they are
staleStored ==
  \A file \in StaleFiles :
    onLoadFile(file)
      => /\ lastAlert' = Null
         /\ selectedAbilities' = Range(file.doc.selectedAbilities)
         /\ selectedOrigin' = file.doc.selectedOrigin
         /\ selectedCommunity' = file.doc.selectedCommunity

\* printing with stale ids selected opens the document of the other cards
stalePrinted ==
  onPrint(TRUE)
    => /\ lastAlert' = Null
       /\ Len(printWindow') = 1
       /\ printedOf(printWindow'[1]) =
            { << "cards" >> \o c.img : c \in Range(printOrder(selectedCards)) }

\* an export with stale ids selected fetches the other cards, writes the ids
\* as they are to personaggio.json, and ends with an archive when the images
\* are fetched
staleExported ==
  /\ \A now \in ExportDates :
       onDownloadZip(now)
         => /\ { it.card : it \in Range(job'.items) } = Range(printOrder(selectedCards))
            /\ Range(zip'.save[1].selectedAbilities) = selectedAbilities
            /\ zip'.save[1].selectedOrigin = selectedOrigin
            /\ zip'.save[1].selectedCommunity = selectedCommunity
  /\ exportGenerate
       => /\ Len(lastDownload') = 1
          /\ imagesOf(lastDownload'[1]) = { it.card.img : it \in Range(job.items) }
          /\ UNCHANGED lastAlert

\* C25: fromSave does not check ids against the catalog. Ability, origin and
\* community ids that no card has are stored as they are and a later toSave
\* returns them; selectedAbilityCards, originCard and communityCard leave
\* them out and show the cards of the other ids; so with stale ids selected
\* the load raises no alert, printing opens the document of the cards that
\* resolve, and an export archives those cards and ends with an archive once
\* their images are fetched.
C25_StaleIdsKept ==
  /\ [](staleSkipped /\ staleReturned)
  /\ [][staleStored /\ stalePrinted /\ staleExported]_vars

\* C25 witness: a save with a stale ability id and a stale origin id is
\* loaded; the ids are in the store, the views show the one ability that
\* resolves, and an archive with that one image and both ability ids in its
\* personaggio.json has been offered.
C25_Witness ==
  /\ selectedAbilities = { "zz", "a2" }
  /\ selectedOrigin = "o2"
  /\ Len(allCards) # 0
  /\ staleAbilities = { "zz" }
  /\ isStale(selectedOrigin)
  /\ idsOf(selectedAbilityCards) = << "a2" >>
  /\ Len(lastDownload) = 1
  /\ Range(lastDownload[1].save[1].selectedAbilities) = { "zz", "a2" }
  /\ lastDownload[1].save[1].selectedOrigin = "o2"
  /\ Len(printWindow) = 1

\* ---------------------------------------------------------------------------
\* The builder's domain buttons
\* ---------------------------------------------------------------------------
\* C26: through the builder's domain handler, which forwards a click to
\* store.toggleDomain only when the domain is selected or fewer than 2 are,
\* domain clicks, ability toggles and class selections keep at most 2
\* domains selected when they start with at most 2; and a click on an
\* unselected domain while 2 are selected changes nothing.
C26_CapInBuilder ==
  /\ [](\A d \in Domains :
          (viewShown /\ d \notin Range(selectedDomains)
             /\ Len(selectedDomains) = MAX_DOMAINS)
            => /\ ENABLED clickDomain(d)
               /\ ~ ENABLED (clickDomain(d) /\ vars' # vars))
  /\ [][ (\/ \E d \in Domains : clickDomain(d)
          \/ \E id \in AbilityIds : toggleAbility(id)
          \/ \E nome \in ClassNames : selectClass(nome))
        => (Len(selectedDomains) <= 2 => Len(selectedDomains') <= 2) ]_vars
  /\ [](Len(selectedDomains) <= 2)

\* C26 witness: two domains were picked by clicks in the manual variant, a
\* third one is not selected, and clicking the second removes it.
C26_Witness ==
  /\ variant = "manual"
  /\ viewShown
  /\ className = "Bardo"
  /\ selectedDomains = << "codice", "grazia" >>
  /\ ENABLED clickDomain("splendore")
  /\ ~ ENABLED (clickDomain("splendore") /\ selectedDomains' # selectedDomains)
  /\ ENABLED (clickDomain("grazia") /\ selectedDomains' = << "codice" >>)

\* ---------------------------------------------------------------------------
\* Documents and the selection
\* ---------------------------------------------------------------------------
\* C27: a save document and the selection share no mutable structure. After
\* fromSave(doc), and after doc = toSave(), the store actions toggleDomain,
\* toggleAbility, selectClass and reset leave the document as it was.
C27_DocumentsNotShared ==
  [][ (/\ heldDoc # << >>
       /\ \/ \E dominio \in Domains : toggleDomain(dominio)
          \/ toggleAbility("a2")
          \/ selectClass("Mago")
          \/ reset)
        => heldDoc' = heldDoc ]_vars

\* ---------------------------------------------------------------------------
\* The cascade and the catalog load
\* ---------------------------------------------------------------------------
\* C28: the cascade holds whatever the interleaving of the catalog load with
\* fromSave and toggleDomain. The abilities come from saves whose abilities
\* are of the domains they select, and only toggleDomain changes the domains
\* afterwards; so when the load completes, every selected id that resolves
\* to a card is of a selected domain: none is of a domain that toggleDomain
\* removed, be it while allCards was still empty.
C28_CascadeAcrossLoad ==
  [][ loadCardsResolve
        => \A c \in Range(allCards') :
             c.id \in selectedAbilities' => c.dominio \in Range(selectedDomains') ]_vars

\* ---------------------------------------------------------------------------
\* The reference table and the selection
\* ---------------------------------------------------------------------------
\* the pair types/card.ts gives a class, [] for a class it does not list
originalPair(nome) ==
  IF nome \in DOMAIN CLASS_DOMAINS THEN CLASS_DOMAINS[nome] ELSE << >>

\* C29: no sequence of store actions changes CLASS_DOMAINS. The table the
\* program holds is the one of types/card.ts in every reachable state, so the
\* getter classDomains gives every class its original pair; and selectClass(c)
\* of the rule set with fixed pairs, whatever toggleDomain removed or added
\* before, sets selectedDomains to the original pair of c.
C29_TableUnchanged ==
  /\ [](/\ classTable = CLASS_DOMAINS
        /\ Truthy(className) => classDomains = originalPair(className))
  /\ [][ \A nome \in ClassNames :
          (variant = "auto" /\ selectClass(nome))
            => selectedDomains' = originalPair(nome) ]_vars

\* C29 witness: a class was selected, its first domain removed and another
\* domain added; selecting the class again gives its original pair.
C29_Witness ==
  /\ variant = "auto"
  /\ className = "Bardo"
  /\ selectedDomains = << "codice", "splendore" >>
  /\ classDomains = << "grazia", "codice" >>
  /\ ENABLED (selectClass("Bardo") /\ selectedDomains' = << "grazia", "codice" >>)

\* ---------------------------------------------------------------------------
\* Properties of an export under edits (SpecSnapshot)
\* ---------------------------------------------------------------------------
\* ids of the cards an export archives in the folders under a top folder
archivedIds(items, top) ==
  { items[i].card.id : i \in { j \in 1..Len(items) : items[j].folder[1] = top } }

\* the document and the cards of an export name the same selection: the
\* origin, community, class cards and abilities the document lists are the
\* cards archived, as far as the catalog holds them
sameSelection(doc, items) ==
  /\ archivedIds(items, "origine") = { id \in { doc.selectedOrigin } : hasCard(id) }
  /\ archivedIds(items, "comunita") = { id \in { doc.selectedCommunity } : hasCard(id) }
  /\ archivedIds(items, "classi") = Range(doc.classCardIds)
  /\ archivedIds(items, "abilita") = { id \in Range(doc.selectedAbilities) : hasCard(id) }

\* C30: an export archives the selection as it was when it started. The
\* document and the cards are taken from the selection at the click; while
\* the images are fetched no step, store action or fetch, changes the
\* document or the cards to archive; the archive offered holds that document
\* and exactly the images of those cards, and both name the same selection.
C30_ExportSnapshot ==
  [][/\ isExportStart =>
          /\ \E now \in ExportDates : job'.save = << toSave(now) >>
          /\ zip'.save = job'.save
          /\ job'.items = exportItems(originCard, communityCard, classCards,
                                      selectedAbilityCards)
          /\ sameSelection(job'.save[1], job'.items)
     /\ (downloading /\ downloading') =>
          /\ job'.save = job.save
          /\ job'.items = job.items
          /\ zip'.save = job.save
          /\ sameSelection(job'.save[1], job'.items)
     /\ isExportDone =>
          LET archive == lastDownload'[1] IN
            /\ archive.save = job.save
            /\ pathsOf(archive) =
                 { pathIn(job.items[i].folder, job.items[i].card) :
                     i \in 1..Len(job.items) }
            /\ sameSelection(archive.save[1], job.items)]_vars

\* every image of an export of two or more cards is in, and the selection has
\* been edited since the click: class, abilities and origin are no longer
\* those of the document; the archive is next
C30_Witness ==
  /\ downloading
  /\ Len(job.items) >= 2
  /\ job.done = Len(job.items)
  /\ job.save[1].className # Coalesce(className, "")
  /\ job.save[1].selectedAbilities # SetToSeq(selectedAbilities)
  /\ job.save[1].selectedOrigin # selectedOrigin
  /\ ENABLED (exportGenerate /\ lastDownload' = << zip >>)

====
